---- MODULE Spec2Model ----
(***************************************************************************)
(* Model of the Minirel buffer manager (src/buf.C): the frame descriptor   *)
(* table, the page-to-frame hash index, the frame store, the clock hand    *)
(* and the operations readPage, unPinPage, allocPage, disposePage and      *)
(* flushFile with the clock replacement engine allocBuf.                   *)
(***************************************************************************)
EXTENDS Integers, Sequences, FiniteSets, TLC

\* ------------------------------------------------------------------ bounds
NumBufs == 2      \* numBufs: number of frames of the pool
NumFiles == 2     \* number of distinct File objects handed to the manager
NumPages == 2     \* page numbers 1..NumPages of each file
MaxPin == 2       \* cap on pinCnt (an int in the code)
MaxData == 1      \* page contents are 0..MaxData

Frames == 0 .. (NumBufs - 1)
NullFile == 0
Files == 1 .. NumFiles
Pages == 1 .. NumPages
Data == 0 .. MaxData
NoData == {}     \* no content: events and histories hold a set of at most one content

\* Status codes returned by the manager and by the File collaborator.
OK == "OK"
FileStatus == {"OK", "BADPAGENO"}

VARIABLES
  bufTable,    \* BufDesc per frame
  bufPool,     \* page content per frame
  hashTable,   \* set of index entries [file, pageNo, frameNo]
  clockHand,   \* the clock hand
  disk,        \* content of each (file, page) as held by the File collaborator
  written,     \* history: content a page had when it was last unpinned dirty
  last         \* history: the last call, its result and the events it issued

vars == <<bufTable, bufPool, hashTable, clockHand, disk, written, last>>

\* ------------------------------------------------------------------ BufDesc
InitDesc(i) ==
  [file |-> NullFile, pageNo |-> 0, frameNo |-> i, pinCnt |-> 0,
   dirty |-> FALSE, valid |-> FALSE, refbit |-> FALSE]

Clear(d) ==
  [d EXCEPT !.pinCnt = 0, !.file = NullFile, !.pageNo = -1,
            !.dirty = FALSE, !.refbit = FALSE, !.valid = FALSE]

Set(d, filePtr, pageNum) ==
  [d EXCEPT !.file = filePtr, !.pageNo = pageNum, !.pinCnt = 1,
            !.dirty = FALSE, !.refbit = TRUE, !.valid = TRUE]

\* ------------------------------------------------------------------ BufHashTbl
HashLookup(ht, file, pageNo) ==
  LET hits == {e \in ht : e.file = file /\ e.pageNo = pageNo}
  IN IF hits = {} THEN [status |-> "HASHNOTFOUND", frameNo |-> -1]
     ELSE [status |-> OK, frameNo |-> (CHOOSE e \in hits : TRUE).frameNo]

HashInsert(ht, file, pageNo, frameNo) ==
  IF \E e \in ht : e.file = file /\ e.pageNo = pageNo
  THEN [status |-> "HASHTBLERROR", ht |-> ht]
  ELSE [status |-> OK,
        ht |-> ht \cup {[file |-> file, pageNo |-> pageNo, frameNo |-> frameNo]}]

HashRemove(ht, file, pageNo) ==
  {e \in ht : ~(e.file = file /\ e.pageNo = pageNo)}

\* ------------------------------------------------------------------ events
\* What a call did, in order: file I/O and the index / descriptor updates.
Ev(ev, file, pageNo, frame, data) ==
  [ev |-> ev, file |-> file, pageNo |-> pageNo, frame |-> frame, data |-> data]

\* The kinds of the events of a log, in order.
Kinds(log) == [n \in 1 .. Len(log) |-> log[n].ev]

\* File::writePage: persists the buffer unless it fails.
WritePage(dk, file, pageNo, data, wr) ==
  IF wr = OK THEN [dk EXCEPT ![<<file, pageNo>>] = data] ELSE dk

advanceClock(hand) == (hand + 1) % NumBufs

\* The pool state threaded through one call.
Cur ==
  [bufTable |-> bufTable, bufPool |-> bufPool, hashTable |-> hashTable,
   clockHand |-> clockHand, disk |-> disk, log |-> <<>>]

\* ------------------------------------------------------------------ allocBuf
isPinned_never(frameState) == FALSE
isPinned_offByOne(frameState) == frameState.pinCnt > 1

\* Step 3: a valid frame that is pinned is passed over.
isPinned(frameState) == frameState.pinCnt > 0

\* The victim is dropped without the write-back of step 4.
evictFrame_noWrite(st, wr) ==
  LET hand == st.clockHand
      frameState == st.bufTable[hand]
  IN [status |-> OK, frame |-> hand,
      st |-> [st EXCEPT
                !.hashTable = HashRemove(@, frameState.file, frameState.pageNo),
                !.bufTable[hand] = Clear(@),
                !.clockHand = advanceClock(hand),
                !.log = Append(Append(@,
                  Ev("remove", frameState.file, frameState.pageNo, hand, NoData)),
                  Ev("clear", frameState.file, frameState.pageNo, hand, NoData))]]

\* The victim is cleared but its hash entry is left behind.
evictFrame_noRemove(st, wr) ==
  LET hand == st.clockHand
      frameState == st.bufTable[hand]
  IN [status |-> OK, frame |-> hand,
      st |-> [st EXCEPT
                !.bufTable[hand] = Clear(@),
                !.clockHand = advanceClock(hand),
                !.log = Append(@,
                  Ev("clear", frameState.file, frameState.pageNo, hand, NoData))]]

\* A failed write-back still drops the victim.
evictFrame_partial(st, wr) ==
  LET hand == st.clockHand
      frameState == st.bufTable[hand]
  IN [status |-> IF frameState.dirty /\ wr # OK THEN "UNIXERR" ELSE OK,
      frame |-> IF frameState.dirty /\ wr # OK THEN -1 ELSE hand,
      st |-> [st EXCEPT
                !.disk = IF frameState.dirty
                         THEN WritePage(@, frameState.file, frameState.pageNo,
                                        st.bufPool[hand], wr)
                         ELSE @,
                !.hashTable = HashRemove(@, frameState.file, frameState.pageNo),
                !.bufTable[hand] = Clear(@),
                !.clockHand = advanceClock(hand)]]

\* Steps 4 and 5: write a dirty victim back, then remove it from the hash
\* table, clear the descriptor and hand the frame out.
evictFrame(st, wr) ==
  LET hand == st.clockHand
      frameState == st.bufTable[hand]
  IN
  IF frameState.dirty /\ wr # OK
  THEN [status |-> "UNIXERR", frame |-> -1,
        st |-> [st EXCEPT !.log = Append(@,
                  Ev("writefail", frameState.file, frameState.pageNo, hand,
                     {st.bufPool[hand]}))]]
  ELSE
    LET flushed ==
          IF frameState.dirty
          THEN [st EXCEPT
                  !.disk = WritePage(@, frameState.file, frameState.pageNo,
                                     st.bufPool[hand], wr),
                  !.bufTable[hand].dirty = FALSE,
                  !.log = Append(@,
                    Ev("write", frameState.file, frameState.pageNo, hand,
                       {st.bufPool[hand]}))]
          ELSE st
    IN [status |-> OK, frame |-> hand,
        st |-> [flushed EXCEPT
                  !.hashTable = HashRemove(@, frameState.file, frameState.pageNo),
                  !.bufTable[hand] = Clear(@),
                  !.clockHand = advanceClock(hand),
                  !.log = Append(Append(@,
                    Ev("remove", frameState.file, frameState.pageNo, hand, NoData)),
                    Ev("clear", frameState.file, frameState.pageNo, hand, NoData))]]

\* The frame under the clock hand as one iteration of the loop finds it.
Examined(st) ==
  LET frameState == st.bufTable[st.clockHand]
  IN [frame |-> st.clockHand, valid |-> frameState.valid,
      refbit |-> frameState.refbit, pinCnt |-> frameState.pinCnt]

hasRefbit_never(frameState) == FALSE

\* Step 2: a valid frame whose refbit is set gets a second chance.
hasRefbit(frameState) == frameState.refbit

\* The loop of allocBuf; examined is the sequence of frames the iterations
\* so far have looked at.
RECURSIVE allocBufLoop(_, _, _, _)
allocBufLoop(st, frameCount, wr, examined) ==
  IF frameCount >= 2 * NumBufs
  THEN [status |-> "BUFFEREXCEEDED", frame |-> -1, st |-> st,
        examined |-> examined]
  ELSE
    LET hand == st.clockHand
        frameState == st.bufTable[hand]
        seen == Append(examined, Examined(st))
    IN
    IF ~frameState.valid
    THEN [status |-> OK, frame |-> hand,
          st |-> [st EXCEPT !.clockHand = advanceClock(hand)],
          examined |-> seen]
    ELSE IF hasRefbit(frameState)
    THEN allocBufLoop([st EXCEPT !.bufTable[hand].refbit = FALSE,
                                 !.clockHand = advanceClock(hand)],
                      frameCount + 1, wr, seen)
    ELSE IF isPinned(frameState)
    THEN allocBufLoop([st EXCEPT !.clockHand = advanceClock(hand)],
                      frameCount + 1, wr, seen)
    ELSE LET e == evictFrame(st, wr)
         IN [status |-> e.status, frame |-> e.frame, st |-> e.st,
             examined |-> seen]

\* The second sweep is never made.
allocBuf_oneSweep(st, wr) == allocBufLoop(st, NumBufs, wr, <<>>)

allocBuf(st, wr) == allocBufLoop(st, 0, wr, <<>>)

\* ------------------------------------------------------------------ readPage
pinFrame_noRef(frameState) == [frameState EXCEPT !.pinCnt = @ + 1]

\* Steps 8 and 9 of a hit: set the refbit, increment pinCnt.
pinFrame(frameState) ==
  [frameState EXCEPT !.refbit = TRUE, !.pinCnt = @ + 1]

readFailed_never(stat) == FALSE

\* Step 4: file->readPage did not return OK.
readFailed(stat) == stat # OK

readPageOp(st, file, PageNo, rd, wr) ==
  LET lk == HashLookup(st.hashTable, file, PageNo)
  IN
  IF lk.status = "HASHNOTFOUND"
  THEN
    LET a == allocBuf(st, wr)
        frame == a.frame
    IN
    IF a.status # OK
    THEN [status |-> a.status, frame |-> -1, hit |-> FALSE, st |-> a.st]
    ELSE IF readFailed(rd)
    THEN [status |-> rd, frame |-> frame, hit |-> FALSE,
          st |-> [a.st EXCEPT
                    !.bufTable[frame] = Clear(@),
                    !.log = Append(@, Ev("readfail", file, PageNo, frame, NoData))]]
    ELSE
      LET rdSt == [a.st EXCEPT
                     !.bufPool[frame] = a.st.disk[<<file, PageNo>>],
                     !.log = Append(@, Ev("read", file, PageNo, frame,
                                          {a.st.disk[<<file, PageNo>>]}))]
          ins == HashInsert(rdSt.hashTable, file, PageNo, frame)
      IN
      IF ins.status # OK
      THEN [status |-> "HASHTBLERROR", frame |-> frame, hit |-> FALSE,
            st |-> [rdSt EXCEPT !.bufTable[frame] = Clear(@)]]
      ELSE [status |-> OK, frame |-> frame, hit |-> FALSE,
            st |-> [rdSt EXCEPT
                      !.hashTable = ins.ht,
                      !.bufTable[frame] = Set(@, file, PageNo),
                      !.log = Append(Append(@,
                        Ev("insert", file, PageNo, frame, NoData)),
                        Ev("set", file, PageNo, frame, NoData))]]
  ELSE
    LET frameNo == lk.frameNo
    IN [status |-> OK, frame |-> frameNo, hit |-> TRUE,
        st |-> [st EXCEPT !.bufTable[frameNo] = pinFrame(@)]]

\* ------------------------------------------------------------------ unPinPage
notPinned_never(frameState) == FALSE

\* Step 3: the frame is not pinned anywhere.
notPinned(frameState) == frameState.pinCnt = 0

unpinFrame_notSticky(frameState, dirty) ==
  [frameState EXCEPT !.pinCnt = @ - 1, !.dirty = dirty]

\* Steps 4 and 5: decrement pinCnt, set the dirty bit if dirty.
unpinFrame(frameState, dirty) ==
  [frameState EXCEPT !.pinCnt = @ - 1, !.dirty = IF dirty THEN TRUE ELSE @]

unPinPageOp(st, file, PageNo, dirty) ==
  LET lk == HashLookup(st.hashTable, file, PageNo)
      frameNo == lk.frameNo
  IN
  IF lk.status # OK
  THEN [status |-> "HASHNOTFOUND", frame |-> -1, hit |-> FALSE, st |-> st]
  ELSE IF notPinned(st.bufTable[frameNo])
  THEN [status |-> "PAGENOTPINNED", frame |-> frameNo, hit |-> TRUE, st |-> st]
  ELSE [status |-> OK, frame |-> frameNo, hit |-> TRUE,
        st |-> [st EXCEPT !.bufTable[frameNo] = unpinFrame(@, dirty)]]

\* ------------------------------------------------------------------ allocPage
insertFailed_never(ins) == FALSE

\* Steps 5 and 6: the hash table refused the new entry.
insertFailed(ins) == ins.status # OK

allocPageOp(st, file, al, pageNo, wr) ==
  IF al # OK
  THEN [status |-> al, frame |-> -1, hit |-> FALSE, st |-> st]
  ELSE
    LET a == allocBuf(st, wr)
        frameNo == a.frame
    IN
    IF a.status # OK
    THEN [status |-> a.status, frame |-> -1, hit |-> FALSE, st |-> a.st]
    ELSE
      LET ins == HashInsert(a.st.hashTable, file, pageNo, frameNo)
      IN
      IF insertFailed(ins)
      THEN [status |-> ins.status, frame |-> frameNo, hit |-> FALSE, st |-> a.st]
      ELSE [status |-> OK, frame |-> frameNo, hit |-> FALSE,
            st |-> [a.st EXCEPT
                      !.hashTable = ins.ht,
                      !.bufTable[frameNo] = Set(@, file, pageNo),
                      !.log = Append(Append(@,
                        Ev("insert", file, pageNo, frameNo, NoData)),
                        Ev("set", file, pageNo, frameNo, NoData))]]

\* ------------------------------------------------------------------ disposePage
\* The frame is cleared but the hash entry is left behind.
disposePageOp_noRemove(st, file, pageNo, dp) ==
  LET lk == HashLookup(st.hashTable, file, pageNo)
  IN [status |-> dp, frame |-> lk.frameNo, hit |-> (lk.status = OK),
      st |-> IF lk.status = OK
             THEN [st EXCEPT !.bufTable[lk.frameNo] = Clear(@),
                             !.log = Append(@, Ev("clear", file, pageNo,
                                                  lk.frameNo, NoData))]
             ELSE st]

\* The frame is only marked invalid instead of being cleared.
disposePageOp_invalidateOnly(st, file, pageNo, dp) ==
  LET lk == HashLookup(st.hashTable, file, pageNo)
      frameNo == lk.frameNo
      cleared ==
        IF lk.status = OK
        THEN [st EXCEPT !.bufTable[frameNo].valid = FALSE,
                        !.log = Append(@, Ev("clear", file, pageNo, frameNo,
                                             NoData))]
        ELSE st
  IN [status |-> dp, frame |-> frameNo, hit |-> (lk.status = OK),
      st |-> [cleared EXCEPT
                !.hashTable = HashRemove(@, file, pageNo),
                !.log = Append(@, Ev("remove", file, pageNo, frameNo, NoData))]]

disposePageOp(st, file, pageNo, dp) ==
  LET lk == HashLookup(st.hashTable, file, pageNo)
      frameNo == lk.frameNo
      cleared ==
        IF lk.status = OK
        THEN [st EXCEPT !.bufTable[frameNo] = Clear(@),
                        !.log = Append(@, Ev("clear", file, pageNo, frameNo,
                                             NoData))]
        ELSE st
  IN [status |-> dp, frame |-> frameNo, hit |-> (lk.status = OK),
      st |-> [cleared EXCEPT
                !.hashTable = HashRemove(@, file, pageNo),
                !.log = Append(@, Ev("remove", file, pageNo, frameNo, NoData))]]

\* ------------------------------------------------------------------ flushFile
flushPinned_never(tmpbuf) == FALSE

\* A frame of the file that is pinned stops the sweep.
flushPinned(tmpbuf) == tmpbuf.pinCnt > 0

RECURSIVE flushFileLoop(_, _, _, _)
flushFileLoop(st, i, file, wrs) ==
  IF i >= NumBufs
  THEN [status |-> OK, frame |-> -1, hit |-> FALSE, st |-> st]
  ELSE
    LET tmpbuf == st.bufTable[i]
    IN
    IF tmpbuf.valid /\ tmpbuf.file = file
    THEN
      IF flushPinned(tmpbuf)
      THEN [status |-> "PAGEPINNED", frame |-> i, hit |-> FALSE, st |-> st]
      ELSE IF tmpbuf.dirty /\ wrs[i] # OK
      THEN [status |-> wrs[i], frame |-> i, hit |-> FALSE,
            st |-> [st EXCEPT !.log = Append(@,
                      Ev("writefail", file, tmpbuf.pageNo, i, {st.bufPool[i]}))]]
      ELSE
        LET flushed ==
              IF tmpbuf.dirty
              THEN [st EXCEPT
                      !.disk = WritePage(@, file, tmpbuf.pageNo, st.bufPool[i], wrs[i]),
                      !.bufTable[i].dirty = FALSE,
                      !.log = Append(@,
                        Ev("write", file, tmpbuf.pageNo, i, {st.bufPool[i]}))]
              ELSE st
        IN flushFileLoop(
             [flushed EXCEPT
                !.hashTable = HashRemove(@, file, tmpbuf.pageNo),
                !.bufTable[i].file = NullFile,
                !.bufTable[i].pageNo = -1,
                !.bufTable[i].valid = FALSE,
                !.log = Append(@, Ev("remove", file, tmpbuf.pageNo, i, NoData))],
             i + 1, file, wrs)
    ELSE IF ~tmpbuf.valid /\ tmpbuf.file = file
    THEN [status |-> "BADBUFFER", frame |-> i, hit |-> FALSE, st |-> st]
    ELSE flushFileLoop(st, i + 1, file, wrs)

flushFileOp_skipFirst(st, file, wrs) == flushFileLoop(st, 1, file, wrs)

\* The sweep leaves the hash entries of the frames it resets.
flushFileOp_staleIndex(st, file, wrs) ==
  LET r == flushFileLoop(st, 0, file, wrs)
  IN [r EXCEPT !.st.hashTable = st.hashTable]

\* The sweep moves the clock hand.
flushFileOp_movesHand(st, file, wrs) ==
  LET r == flushFileLoop(st, 0, file, wrs)
  IN [r EXCEPT !.st.clockHand = advanceClock(@)]

flushFileOp(st, file, wrs) == flushFileLoop(st, 0, file, wrs)

\* ------------------------------------------------------------------ ~BufMgr
needsFlush_unpinned(tmpbuf) == tmpbuf.valid /\ tmpbuf.dirty /\ tmpbuf.pinCnt = 0

\* The destructor writes the frames that are valid and dirty.
needsFlush(tmpbuf) == tmpbuf.valid /\ tmpbuf.dirty

\* The sweep of the destructor: the status of writePage is not looked at.
RECURSIVE destroyLoop(_, _, _)
destroyLoop(st, i, wrs) ==
  IF i >= NumBufs
  THEN st
  ELSE
    LET tmpbuf == st.bufTable[i]
    IN IF needsFlush(tmpbuf)
       THEN destroyLoop(
              [st EXCEPT
                 !.disk = WritePage(@, tmpbuf.file, tmpbuf.pageNo,
                                    st.bufPool[i], wrs[i]),
                 !.log = Append(@,
                   Ev(IF wrs[i] = OK THEN "write" ELSE "writefail",
                      tmpbuf.file, tmpbuf.pageNo, i, {st.bufPool[i]}))],
              i + 1, wrs)
       ELSE destroyLoop(st, i + 1, wrs)

destroyOp(st, wrs) ==
  [status |-> OK, frame |-> -1, hit |-> FALSE, st |-> destroyLoop(st, 0, wrs)]

\* ------------------------------------------------------------------ state machine
Keys == Files \X Pages

\* SpecData: the pages the callers use, and the page whose content a holder
\* changes.
DataKeys == {<<1, 1>>, <<1, 2>>, <<2, 1>>}
ModPage == <<1, 1>>

NoCall ==
  [op |-> "none", file |-> NullFile, pageNo |-> 0, status |-> OK,
   frame |-> -1, hit |-> FALSE, pin |-> 0, dirty |-> FALSE, log |-> <<>>]

Init ==
  /\ bufTable = [i \in Frames |-> InitDesc(i)]
  /\ bufPool = [i \in Frames |-> 0]
  /\ hashTable = {}
  /\ clockHand = NumBufs - 1
  /\ disk = [k \in Keys |-> 0]
  /\ written = [k \in Keys |-> NoData]
  /\ last = NoCall

\* pinCnt of the frame holding (file, pageNo) before the call, 0 if not resident.
PinOf(file, pageNo) ==
  LET lk == HashLookup(hashTable, file, pageNo)
  IN IF lk.status = OK THEN bufTable[lk.frameNo].pinCnt ELSE 0

\* Install the result r of a call.
Commit(r, op, file, pageNo, dirty) ==
  /\ bufTable' = r.st.bufTable
  /\ bufPool' = r.st.bufPool
  /\ hashTable' = r.st.hashTable
  /\ clockHand' = r.st.clockHand
  /\ disk' = r.st.disk
  /\ last' = [op |-> op, file |-> file, pageNo |-> pageNo, status |-> r.status,
              frame |-> r.frame, hit |-> r.hit, pin |-> PinOf(file, pageNo),
              dirty |-> dirty, log |-> Kinds(r.st.log)]

readPageOn(K) ==
  \E k \in K, rd \in FileStatus, wr \in FileStatus :
    LET r == readPageOp(Cur, k[1], k[2], rd, wr)
    IN /\ \A i \in Frames : r.st.bufTable[i].pinCnt <= MaxPin
       /\ Commit(r, "readPage", k[1], k[2], FALSE)
       /\ UNCHANGED written

unPinPageOn(K, track) ==
  \E k \in K, dirty \in BOOLEAN :
    LET r == unPinPageOp(Cur, k[1], k[2], dirty)
    IN /\ Commit(r, "unPinPage", k[1], k[2], dirty)
       /\ written' = IF track /\ r.status = OK /\ dirty /\ k = ModPage
                     THEN [written EXCEPT ![k] = {bufPool[r.frame]}]
                     ELSE written

allocPageOn(K) ==
  \E k \in K, al \in FileStatus, wr \in FileStatus :
    LET r == allocPageOp(Cur, k[1], al, k[2], wr)
    IN /\ Commit(r, "allocPage", k[1], k[2], FALSE)
       /\ UNCHANGED written

disposePageOn(K) ==
  \E k \in K, dp \in FileStatus :
    LET r == disposePageOp(Cur, k[1], k[2], dp)
    IN /\ Commit(r, "disposePage", k[1], k[2], FALSE)
       /\ written' = [written EXCEPT ![k] = NoData]

flushFileOn(F) ==
  \E file \in F, wrs \in [Frames -> FileStatus] :
    LET r == flushFileOp(Cur, file, wrs)
    IN /\ Commit(r, "flushFile", file, 0, FALSE)
       /\ written' = [k \in Keys |->
                       IF /\ HashLookup(hashTable, k[1], k[2]).status = OK
                          /\ HashLookup(r.st.hashTable, k[1], k[2]).status # OK
                       THEN NoData ELSE written[k]]

readPage == readPageOn(Keys)
unPinPage == unPinPageOn(Keys, FALSE)
allocPage == allocPageOn(Keys)
disposePage == disposePageOn(Keys)
flushFile == flushFileOn(Files)

Next == readPage \/ unPinPage \/ allocPage \/ disposePage \/ flushFile

Spec == Init /\ [][Next]_vars

\* ---- the same operations with holders that change page contents
readPageData == readPageOn(DataKeys)
unPinPageData == unPinPageOn(DataKeys, TRUE)

\* A holder of a pinned page changes its content through the returned pointer.
modifyPage ==
  \E i \in Frames, v \in Data :
    /\ bufTable[i].valid /\ bufTable[i].pinCnt > 0
    /\ <<bufTable[i].file, bufTable[i].pageNo>> = ModPage
    /\ v # bufPool[i]
    /\ bufPool' = [bufPool EXCEPT ![i] = v]
    /\ written' = [written EXCEPT ![<<bufTable[i].file, bufTable[i].pageNo>>] = NoData]
    /\ last' = [NoCall EXCEPT !.op = "modifyPage", !.file = bufTable[i].file,
                              !.pageNo = bufTable[i].pageNo, !.frame = i]
    /\ UNCHANGED <<bufTable, hashTable, clockHand, disk>>

disposePageData == disposePageOn(DataKeys)
flushFileData == flushFileOn(Files)

NextData ==
  readPageData \/ unPinPageData \/ modifyPage \/ disposePageData \/ flushFileData

SpecData == Init /\ [][NextData]_vars

\* ---- the life of one manager: the calls, ended by the destructor
\* The manager has not been destroyed.
Alive == last.op # "~BufMgr"

readPageLife == Alive /\ readPage
unPinPageLife == Alive /\ unPinPage
allocPageLife == Alive /\ allocPage
disposePageLife == Alive /\ disposePage
flushFileLife == Alive /\ flushFile

\* The destructor runs; the pool's memory is released and no call follows.
destroyBufMgr ==
  /\ Alive
  /\ \E wrs \in [Frames -> FileStatus] :
       /\ Commit(destroyOp(Cur, wrs), "~BufMgr", NullFile, 0, FALSE)
       /\ UNCHANGED written

NextLife ==
  \/ readPageLife \/ unPinPageLife \/ allocPageLife \/ disposePageLife
  \/ flushFileLife \/ destroyBufMgr

SpecLife == Init /\ [][NextLife]_vars

\* ------------------------------------------------------------------ claims
Resident(file, pageNo) == HashLookup(hashTable, file, pageNo).status = OK
FrameOf(file, pageNo) == HashLookup(hashTable, file, pageNo).frameNo
EntriesOf(ht, i) == {e \in ht : e.frameNo = i}

\* C1: whenever allocBuf runs in a reachable state, the frame it selects has
\* pinCnt = 0 at that moment, and a valid frame with pinCnt > 0 is neither
\* returned, nor cleared, nor removed from the hash table by it.
C1_VictimUnpinned ==
  \A wr \in FileStatus :
    LET a == allocBuf(Cur, wr)
    IN /\ a.status = OK => bufTable[a.frame].pinCnt = 0
       /\ \A i \in Frames :
            bufTable[i].valid /\ bufTable[i].pinCnt > 0 =>
              /\ a.frame # i
              /\ a.st.bufTable[i] = [bufTable[i] EXCEPT !.refbit = a.st.bufTable[i].refbit]
              /\ EntriesOf(a.st.hashTable, i) = EntriesOf(hashTable, i)

\* A miss has just evicted a resident page while another frame stayed pinned.
C1_Witness ==
  /\ last.op \in {"readPage", "allocPage"}
  /\ last.status = OK /\ ~last.hit
  /\ \E n \in 1 .. Len(last.log) : last.log[n] = "remove"
  /\ \E i \in Frames : i # last.frame /\ bufTable[i].valid /\ bufTable[i].pinCnt > 0

\* C2 as stated: a pinned page stays in its frame, and in the hash table,
\* across every call.
C2_PinnedStaysResident ==
  [][\A i \in Frames :
       bufTable[i].valid /\ bufTable[i].pinCnt > 0 =>
         /\ bufTable'[i].valid
         /\ bufTable'[i].file = bufTable[i].file
         /\ bufTable'[i].pageNo = bufTable[i].pageNo
         /\ [file |-> bufTable[i].file, pageNo |-> bufTable[i].pageNo,
             frameNo |-> i] \in hashTable']_vars

\* C2 amended: a pinned page stays in its frame, and in the hash table, across
\* every call other than a disposePage of that very page.
C2_PinnedStaysUnlessDisposed ==
  [][\A i \in Frames :
       /\ bufTable[i].valid /\ bufTable[i].pinCnt > 0
       /\ ~(/\ last'.op = "disposePage"
            /\ last'.file = bufTable[i].file
            /\ last'.pageNo = bufTable[i].pageNo)
       => /\ bufTable'[i].valid
          /\ bufTable'[i].file = bufTable[i].file
          /\ bufTable'[i].pageNo = bufTable[i].pageNo
          /\ [file |-> bufTable[i].file, pageNo |-> bufTable[i].pageNo,
              frameNo |-> i] \in hashTable']_vars

\* A flushFile has just met a pinned page of its file, which is still resident.
C2_Witness ==
  /\ last.op = "flushFile" /\ last.status = "PAGEPINNED"
  /\ bufTable[last.frame].valid /\ bufTable[last.frame].file = last.file
  /\ bufTable[last.frame].pinCnt > 0
  /\ Resident(last.file, bufTable[last.frame].pageNo)

\* C3: pinCnt is never negative, and unPinPage of a resident page with
\* pinCnt = 0 returns PAGENOTPINNED and changes nothing, whatever the dirty
\* argument.
C3_PinCountGuard ==
  /\ \A i \in Frames : bufTable[i].pinCnt >= 0
  /\ \A k \in Keys, dirty \in BOOLEAN :
       Resident(k[1], k[2]) /\ bufTable[FrameOf(k[1], k[2])].pinCnt = 0 =>
         LET r == unPinPageOp(Cur, k[1], k[2], dirty)
         IN r.status = "PAGENOTPINNED" /\ r.st = Cur

\* An unPinPage with dirty = TRUE has just been refused on an unpinned page.
C3_Witness ==
  /\ last.op = "unPinPage" /\ last.status = "PAGENOTPINNED" /\ last.dirty
  /\ bufTable[last.frame].pinCnt = 0 /\ ~bufTable[last.frame].dirty

\* C4: readPage of a resident page returns the frame the page occupies,
\* adds exactly 1 to its pinCnt, sets its refbit and issues no file I/O; a
\* page just fetched by a miss and fetched again is in the same frame with
\* pinCnt = 2.
C4_HitPins ==
  /\ \A k \in Keys, rd \in FileStatus, wr \in FileStatus :
       Resident(k[1], k[2]) =>
         LET f == FrameOf(k[1], k[2])
             r == readPageOp(Cur, k[1], k[2], rd, wr)
         IN /\ bufTable[f].valid
            /\ bufTable[f].file = k[1] /\ bufTable[f].pageNo = k[2]
            /\ r.status = OK /\ r.hit /\ r.frame = f
            /\ r.st.bufTable[f].pinCnt = bufTable[f].pinCnt + 1
            /\ r.st.bufTable[f].refbit
            /\ r.st.log = <<>>
            /\ r.st.disk = disk /\ r.st.bufPool = bufPool
            /\ r.st.hashTable = hashTable /\ r.st.clockHand = clockHand
            /\ \A i \in Frames \ {f} : r.st.bufTable[i] = bufTable[i]
  /\ (last.op = "readPage" /\ last.status = OK /\ ~last.hit) =>
       LET r == readPageOp(Cur, last.file, last.pageNo, OK, OK)
       IN r.hit /\ r.frame = last.frame /\ r.st.bufTable[r.frame].pinCnt = 2

\* The second of two fetches of a page has just hit: pinCnt went from 1 to 2
\* with no I/O.
C4_Witness ==
  /\ last.op = "readPage" /\ last.status = OK /\ last.hit
  /\ last.pin = 1 /\ last.log = <<>>
  /\ bufTable[last.frame].pinCnt = 2 /\ bufTable[last.frame].refbit

AllPinned == \A i \in Frames : bufTable[i].valid /\ bufTable[i].pinCnt > 0

\* The failed call evicted no resident page and changed no pinCnt.
NothingEvicted(r) ==
  /\ r.st.hashTable = hashTable
  /\ \A i \in Frames :
       r.st.bufTable[i] = [bufTable[i] EXCEPT !.refbit = r.st.bufTable[i].refbit]

\* C5 as stated: with every frame valid and pinned, readPage of a page that
\* is not resident and allocPage both return BUFFEREXCEEDED and evict nothing.
C5_ExhaustedAlways ==
  AllPinned =>
    /\ \A k \in Keys, rd \in FileStatus, wr \in FileStatus :
         ~Resident(k[1], k[2]) =>
           LET r == readPageOp(Cur, k[1], k[2], rd, wr)
           IN r.status = "BUFFEREXCEEDED" /\ NothingEvicted(r)
    /\ \A k \in Keys, al \in FileStatus, wr \in FileStatus :
         LET r == allocPageOp(Cur, k[1], al, k[2], wr)
         IN r.status = "BUFFEREXCEEDED" /\ NothingEvicted(r)

\* C5 amended: with every frame valid and pinned, readPage of a page that is
\* not resident returns BUFFEREXCEEDED; allocPage returns BUFFEREXCEEDED when
\* the file's allocatePage succeeds and the file's error otherwise; in every
\* case nothing is evicted and no pinCnt changes.
C5_ExhaustedUnlessAllocFails ==
  AllPinned =>
    /\ \A k \in Keys, rd \in FileStatus, wr \in FileStatus :
         ~Resident(k[1], k[2]) =>
           LET r == readPageOp(Cur, k[1], k[2], rd, wr)
           IN r.status = "BUFFEREXCEEDED" /\ NothingEvicted(r)
    /\ \A k \in Keys, al \in FileStatus, wr \in FileStatus :
         LET r == allocPageOp(Cur, k[1], al, k[2], wr)
         IN /\ r.status = IF al = OK THEN "BUFFEREXCEEDED" ELSE al
            /\ NothingEvicted(r)

\* An allocPage has just been refused with every frame pinned.
C5_Witness ==
  /\ last.op = "allocPage" /\ last.status = "BUFFEREXCEEDED"
  /\ AllPinned
  /\ Cardinality(hashTable) = NumBufs

\* The events of a log that are calls of File::writePage.
WriteEvents(log) == {n \in 1 .. Len(log) : log[n].ev \in {"write", "writefail"}}

\* C6: a resident page that was unpinned dirty is still dirty unless its
\* content has reached the file since, and when readPage
\* of another page evicts a dirty frame it issues exactly one writePage, for
\* that frame's file and page and with the frame's content, before the hash
\* entry is removed, the descriptor cleared and the new page read in; an
\* allocPage that evicts a dirty frame does the same.
C6_DirtyVictimWrittenOnce ==
  /\ \A k \in Keys :
       written[k] # NoData /\ Resident(k[1], k[2]) =>
         /\ written[k] = {bufPool[FrameOf(k[1], k[2])]}
         /\ bufTable[FrameOf(k[1], k[2])].dirty \/ written[k] = {disk[k]}
  /\ \A k \in Keys, rd \in FileStatus :
       LET a == allocBuf(Cur, OK)
           r == readPageOp(Cur, k[1], k[2], rd, OK)
           v == a.frame
       IN (/\ ~Resident(k[1], k[2])
           /\ a.status = OK /\ bufTable[v].valid /\ bufTable[v].dirty) =>
            /\ Cardinality(WriteEvents(r.st.log)) = 1
            /\ r.st.log[1] = Ev("write", bufTable[v].file, bufTable[v].pageNo, v,
                                {bufPool[v]})
            /\ a.st.log = SubSeq(r.st.log, 1, Len(a.st.log))
            /\ Kinds(a.st.log) = <<"write", "remove", "clear">>
            /\ r.st.disk[<<bufTable[v].file, bufTable[v].pageNo>>] = bufPool[v]
  /\ \A k \in Keys :
       LET a == allocBuf(Cur, OK)
           r == allocPageOp(Cur, k[1], OK, k[2], OK)
           v == a.frame
       IN (a.status = OK /\ bufTable[v].valid /\ bufTable[v].dirty) =>
            /\ Cardinality(WriteEvents(r.st.log)) = 1
            /\ r.st.log[1] = Ev("write", bufTable[v].file, bufTable[v].pageNo, v,
                                {bufPool[v]})
            /\ a.st.log = SubSeq(r.st.log, 1, Len(a.st.log))
            /\ r.st.disk[<<bufTable[v].file, bufTable[v].pageNo>>] = bufPool[v]

\* A readPage has just evicted the modified page: its content 1 went to the
\* file before the frame was reused.
C6_Witness ==
  /\ last.op = "readPage" /\ last.status = OK
  /\ last.log = <<"write", "remove", "clear", "read", "insert", "set">>
  /\ written[ModPage] = {1}
  /\ ~Resident(ModPage[1], ModPage[2])
  /\ disk[ModPage] = 1

\* C7: a page that was modified to v, unpinned dirty and then evicted by
\* allocBuf comes back with content v at the next successful readPage.
C7_RoundTrip ==
  /\ \A k \in Keys, rd \in FileStatus, wr \in FileStatus :
       written[k] # NoData /\ ~Resident(k[1], k[2]) =>
         LET r == readPageOp(Cur, k[1], k[2], rd, wr)
         IN /\ r.status = OK => written[k] = {r.st.bufPool[r.frame]}
            /\ (rd = OK /\ wr = OK /\ ~AllPinned) => r.status = OK
  /\ (/\ last.op = "readPage" /\ last.status = OK /\ ~last.hit
      /\ written[<<last.file, last.pageNo>>] # NoData) =>
       written[<<last.file, last.pageNo>>] = {bufPool[last.frame]}

\* The modified page has just been read back after its eviction, with the
\* content 1 it was given and not the 0 the file held at first.
C7_Witness ==
  /\ last.op = "readPage" /\ last.status = OK /\ ~last.hit
  /\ <<last.file, last.pageNo>> = ModPage
  /\ written[ModPage] = {1}
  /\ bufPool[last.frame] = 1

\* The fetch of page k that follows a disposePage of k with result d.
FetchAfter(d, k, rd, wr) ==
  readPageOp([d.st EXCEPT !.log = <<>>], k[1], k[2], rd, wr)

ReadIssued(r, k) ==
  \E n \in 1 .. Len(r.st.log) :
    /\ r.st.log[n].ev \in {"read", "readfail"}
    /\ r.st.log[n].file = k[1] /\ r.st.log[n].pageNo = k[2]

\* C8 as stated: after disposePage of a resident page with pinCnt = 0 the
\* page has no hash entry and its frame is unused, and the next readPage of
\* it is a miss that calls the file's readPage.
C8_DisposeThenFreshRead ==
  \A k \in Keys, dp \in FileStatus, rd \in FileStatus, wr \in FileStatus :
    Resident(k[1], k[2]) /\ bufTable[FrameOf(k[1], k[2])].pinCnt = 0 =>
      LET f == FrameOf(k[1], k[2])
          d == disposePageOp(Cur, k[1], k[2], dp)
          r == FetchAfter(d, k, rd, wr)
      IN /\ HashLookup(d.st.hashTable, k[1], k[2]).status = "HASHNOTFOUND"
         /\ d.st.bufTable[f] = Clear(bufTable[f])
         /\ ~r.hit
         /\ ReadIssued(r, k)

\* C8 amended: ... the next readPage of it is a miss, never a hit on the old
\* frame; it calls the file's readPage unless allocBuf first fails to write a
\* dirty victim back, in which case it returns UNIXERR without reading.
C8_DisposeThenMiss ==
  \A k \in Keys, dp \in FileStatus, rd \in FileStatus, wr \in FileStatus :
    Resident(k[1], k[2]) /\ bufTable[FrameOf(k[1], k[2])].pinCnt = 0 =>
      LET f == FrameOf(k[1], k[2])
          d == disposePageOp(Cur, k[1], k[2], dp)
          r == FetchAfter(d, k, rd, wr)
      IN /\ HashLookup(d.st.hashTable, k[1], k[2]).status = "HASHNOTFOUND"
         /\ d.st.bufTable[f] = Clear(bufTable[f])
         /\ ~r.hit
         /\ wr = OK => ReadIssued(r, k)
         /\ ReadIssued(r, k) \/
              (r.status = "UNIXERR" /\ Kinds(r.st.log) = <<"writefail">>)
         /\ (r.status = OK) => r.st.bufPool[r.frame] = d.st.disk[k]

\* A resident page with pinCnt = 0 has just been disposed of: it has no hash
\* entry and its frame is unused.
C8_Witness ==
  /\ last.op = "disposePage" /\ last.hit /\ last.pin = 0 /\ last.status = OK
  /\ ~Resident(last.file, last.pageNo)
  /\ ~bufTable[last.frame].valid
  /\ \E i \in Frames : bufTable[i].valid /\ bufTable[i].dirty

\* C9: flushFile sweeps the frames in increasing index; when a frame of the
\* file is pinned and the writes before it succeed it returns PAGEPINNED with
\* the file's frames below the first pinned one written back if dirty,
\* removed from the hash table and reset, and every other frame unchanged.
C9_FlushStopsAtPinned ==
  \A file \in Files, wrs \in [Frames -> FileStatus] :
    LET pinned == {i \in Frames : /\ bufTable[i].valid /\ bufTable[i].file = file
                                  /\ bufTable[i].pinCnt > 0}
        p == CHOOSE i \in pinned : \A j \in pinned : i <= j
        lower == {i \in Frames : i < p /\ bufTable[i].valid /\ bufTable[i].file = file}
        r == flushFileOp(Cur, file, wrs)
    IN (pinned # {} /\ \A i \in lower : bufTable[i].dirty => wrs[i] = OK) =>
         /\ r.status = "PAGEPINNED" /\ r.frame = p
         /\ \A i \in lower :
              /\ r.st.bufTable[i] =
                   [bufTable[i] EXCEPT !.file = NullFile, !.pageNo = -1,
                                       !.valid = FALSE, !.dirty = FALSE]
              /\ r.st.bufTable[i].pinCnt = 0
              /\ HashLookup(r.st.hashTable, file, bufTable[i].pageNo).status
                   = "HASHNOTFOUND"
              /\ bufTable[i].dirty <=>
                   \E n \in 1 .. Len(r.st.log) :
                     r.st.log[n] = Ev("write", file, bufTable[i].pageNo, i,
                                      {bufPool[i]})
              /\ bufTable[i].dirty =>
                   r.st.disk[<<file, bufTable[i].pageNo>>] = bufPool[i]
         /\ \A i \in Frames \ lower :
              /\ r.st.bufTable[i] = bufTable[i]
              /\ EntriesOf(r.st.hashTable, i) = EntriesOf(hashTable, i)
         /\ \A m \in 1 .. Len(r.st.log), n \in 1 .. Len(r.st.log) :
              m < n => r.st.log[m].frame <= r.st.log[n].frame
         /\ \A n \in 1 .. Len(r.st.log) : r.st.log[n].frame \in lower

\* A flushFile has just written back and dropped a dirty frame and then
\* stopped at a pinned frame of the same file.
C9_Witness ==
  /\ last.op = "flushFile" /\ last.status = "PAGEPINNED"
  /\ last.log = <<"write", "remove">>
  /\ last.frame > 0
  /\ \E i \in Frames : i < last.frame /\ ~bufTable[i].valid
  /\ bufTable[last.frame].valid /\ bufTable[last.frame].pinCnt > 0

\* C10: no two valid frames hold the same (file, pageNo), and the hash table
\* has at most one entry for each (file, pageNo).
C10_OneFramePerPage ==
  /\ \A i \in Frames, j \in Frames :
       (/\ i # j /\ bufTable[i].valid /\ bufTable[j].valid
        /\ bufTable[i].file = bufTable[j].file) =>
         bufTable[i].pageNo # bufTable[j].pageNo
  /\ \A k \in Keys :
       Cardinality({e \in hashTable : e.file = k[1] /\ e.pageNo = k[2]}) <= 1

\* An allocPage whose file handed out the number of a resident page has just
\* been refused by the hash table: the page keeps its one frame and the frame
\* allocBuf handed out stays unused.
C10_Witness ==
  /\ last.op = "allocPage" /\ last.status = "HASHTBLERROR"
  /\ Resident(last.file, last.pageNo)
  /\ bufTable[FrameOf(last.file, last.pageNo)].valid
  /\ ~bufTable[last.frame].valid

\* C11: in every reachable state, the failure paths of the calls included, a
\* frame that is not valid has pinCnt = 0, is not dirty and has no owner:
\* file is null and pageNo is the 0 of construction or the -1 of Clear and
\* flushFile.
C11_InvalidIsUnused ==
  \A i \in Frames :
    ~bufTable[i].valid =>
      /\ bufTable[i].pinCnt = 0
      /\ ~bufTable[i].dirty
      /\ bufTable[i].file = NullFile
      /\ bufTable[i].pageNo \in {0, -1}

\* A page has just been disposed of while it was pinned: its frame is
\* unused, with no pin left on it.
C11_Witness ==
  /\ last.op = "disposePage" /\ last.hit /\ last.pin > 0
  /\ ~bufTable[last.frame].valid
  /\ bufTable[last.frame].pinCnt = 0
  /\ bufTable[last.frame].pageNo = -1
  /\ \E i \in Frames : ~bufTable[i].valid /\ bufTable[i].pageNo = 0

\* The events of a log that concern frame i.
EventsOf(log, i) == {n \in 1 .. Len(log) : log[n].frame = i}

\* C12: when the destructor runs in a reachable state, writePage is called
\* exactly once for every frame whose dirty flag is set, with the frame's
\* file, page and content, whether the frame is pinned or not and whether the
\* writes for other frames fail or not; no other frame is written.
C12_DestructorWritesDirty ==
  Alive =>
    \A wrs \in [Frames -> FileStatus] :
      LET r == destroyOp(Cur, wrs)
      IN \A i \in Frames :
           /\ bufTable[i].dirty =>
                /\ Cardinality(EventsOf(r.st.log, i)) = 1
                /\ \E n \in 1 .. Len(r.st.log) :
                     r.st.log[n] =
                       Ev(IF wrs[i] = OK THEN "write" ELSE "writefail",
                          bufTable[i].file, bufTable[i].pageNo, i, {bufPool[i]})
                /\ wrs[i] = OK =>
                     r.st.disk[<<bufTable[i].file, bufTable[i].pageNo>>] = bufPool[i]
           /\ ~bufTable[i].dirty => EventsOf(r.st.log, i) = {}

\* The destructor has just run with two dirty frames, the second one pinned:
\* the write of the first failed and the second was written all the same.
C12_Witness ==
  /\ last.op = "~BufMgr"
  /\ last.log = <<"writefail", "write">>
  /\ \A i \in Frames : bufTable[i].valid /\ bufTable[i].dirty
  /\ bufTable[NumBufs - 1].pinCnt > 0

\* The call with result r cleared the dirty flag of no frame other than by
\* writing that frame's content to its file and page.
DirtyKept(r) ==
  \A i \in Frames :
    bufTable[i].dirty /\ ~r.st.bufTable[i].dirty =>
      \E n \in 1 .. Len(r.st.log) :
        r.st.log[n] = Ev("write", bufTable[i].file, bufTable[i].pageNo, i,
                         {bufPool[i]})

\* The same for the frames that do not hold (file, pageNo).
DirtyKeptBut(r, file, pageNo) ==
  \A i \in Frames :
    (/\ bufTable[i].dirty /\ ~r.st.bufTable[i].dirty
     /\ <<bufTable[i].file, bufTable[i].pageNo>> # <<file, pageNo>>) =>
      \E n \in 1 .. Len(r.st.log) :
        r.st.log[n] = Ev("write", bufTable[i].file, bufTable[i].pageNo, i,
                         {bufPool[i]})

\* What readPage, unPinPage, allocPage and flushFile do to the dirty flags:
\* unPinPage with dirty = FALSE leaves every dirty flag as it is, and the
\* other calls clear one only by a successful writePage of that frame.
DirtySticky ==
  /\ \A k \in Keys :
       LET r == unPinPageOp(Cur, k[1], k[2], FALSE)
       IN \A i \in Frames : r.st.bufTable[i].dirty = bufTable[i].dirty
  /\ \A k \in Keys : DirtyKept(unPinPageOp(Cur, k[1], k[2], TRUE))
  /\ \A k \in Keys, rd \in FileStatus, wr \in FileStatus :
       DirtyKept(readPageOp(Cur, k[1], k[2], rd, wr))
  /\ \A k \in Keys, al \in FileStatus, wr \in FileStatus :
       DirtyKept(allocPageOp(Cur, k[1], al, k[2], wr))
  /\ \A file \in Files, wrs \in [Frames -> FileStatus] :
       DirtyKept(flushFileOp(Cur, file, wrs))

\* C13 as stated: a dirty flag that is set goes back to false only through a
\* successful write-back of that frame by flushFile or allocBuf; unPinPage
\* with dirty = FALSE never clears it and no other call, disposePage
\* included, resets a dirty frame without writing it.
C13_DirtyClearedOnlyByWrite ==
  /\ DirtySticky
  /\ \A k \in Keys, dp \in FileStatus :
       DirtyKept(disposePageOp(Cur, k[1], k[2], dp))

\* C13 amended: ... or through disposePage of the page the frame holds, which
\* clears the frame without writing it; disposePage leaves the dirty flag of
\* every other frame alone.
C13_DirtyClearedByWriteOrDispose ==
  /\ DirtySticky
  /\ \A k \in Keys, dp \in FileStatus :
       LET r == disposePageOp(Cur, k[1], k[2], dp)
       IN /\ DirtyKeptBut(r, k[1], k[2])
          /\ r.st.log # <<>> => \A n \in 1 .. Len(r.st.log) :
               r.st.log[n].ev \notin {"write", "writefail"}

\* An unPinPage with dirty = FALSE has just released a pin of a page that an
\* earlier unPinPage had marked dirty: the page is still dirty.
C13_Witness ==
  /\ last.op = "unPinPage" /\ last.status = OK /\ ~last.dirty
  /\ last.pin = 1
  /\ bufTable[last.frame].dirty /\ bufTable[last.frame].pinCnt = 0

\* C14: when the file's readPage fails in a readPage miss for which allocBuf
\* handed out a frame, the call returns the read error, that frame is unused
\* (not valid, pinCnt = 0) and the hash table has no entry for the requested
\* page; when the read succeeds the entry is inserted after the read.
C14_ReadFailureUnpublished ==
  \A k \in Keys, rd \in FileStatus, wr \in FileStatus :
    LET a == allocBuf(Cur, wr)
        r == readPageOp(Cur, k[1], k[2], rd, wr)
        kinds == Kinds(r.st.log)
    IN (~Resident(k[1], k[2]) /\ a.status = OK) =>
         /\ rd # OK =>
              /\ r.status = rd
              /\ ~r.st.bufTable[a.frame].valid
              /\ r.st.bufTable[a.frame].pinCnt = 0
              /\ HashLookup(r.st.hashTable, k[1], k[2]).status = "HASHNOTFOUND"
              /\ EntriesOf(r.st.hashTable, a.frame) = {}
              /\ \A n \in 1 .. Len(kinds) : kinds[n] # "insert"
         /\ rd = OK =>
              \E n \in 1 .. Len(kinds) :
                /\ kinds[n] = "read"
                /\ \A m \in 1 .. Len(kinds) : kinds[m] = "insert" => m > n

\* A readPage has just evicted a page and then failed to read the requested
\* one: the frame is unused and the page has no hash entry.
C14_Witness ==
  /\ last.op = "readPage" /\ last.status = "BADPAGENO"
  /\ last.log = <<"remove", "clear", "readfail">>
  /\ ~bufTable[last.frame].valid /\ bufTable[last.frame].pinCnt = 0
  /\ ~Resident(last.file, last.pageNo)

\* C15: when allocBuf comes to a dirty frame it would evict and the
\* writePage of it fails, allocBuf, and the readPage or allocPage that called
\* it, return UNIXERR, and the frame is valid, dirty, unpinned, with the same
\* file and page and its hash entry, and the clock hand is on it; the
\* file is not changed.
C15_FailedWriteBackKeepsFrame ==
  \A wr \in FileStatus \ {OK} :
    LET ok == allocBuf(Cur, OK)
        v == ok.frame
        a == allocBuf(Cur, wr)
    IN (ok.status = OK /\ bufTable[v].valid /\ bufTable[v].dirty) =>
         /\ a.status = "UNIXERR"
         /\ a.st.bufTable[v] = [bufTable[v] EXCEPT !.refbit = FALSE]
         /\ a.st.bufTable[v].valid /\ a.st.bufTable[v].dirty
         /\ HashLookup(a.st.hashTable, bufTable[v].file, bufTable[v].pageNo)
              = [status |-> OK, frameNo |-> v]
         /\ a.st.hashTable = hashTable
         /\ a.st.clockHand = v
         /\ a.st.disk = disk /\ a.st.bufPool = bufPool
         /\ \A k \in Keys, rd \in FileStatus :
              ~Resident(k[1], k[2]) =>
                LET r == readPageOp(Cur, k[1], k[2], rd, wr)
                IN r.status = "UNIXERR" /\ r.st = a.st
         /\ \A k \in Keys :
              LET r == allocPageOp(Cur, k[1], OK, k[2], wr)
              IN r.status = "UNIXERR" /\ r.st = a.st

\* A miss has just failed on the write-back of its victim: the victim is
\* still resident and dirty under the clock hand.
C15_Witness ==
  /\ last.op \in {"readPage", "allocPage"} /\ last.status = "UNIXERR"
  /\ last.log = <<"writefail">>
  /\ bufTable[clockHand].valid /\ bufTable[clockHand].dirty
  /\ bufTable[clockHand].pinCnt = 0
  /\ Resident(bufTable[clockHand].file, bufTable[clockHand].pageNo)
  /\ FrameOf(bufTable[clockHand].file, bufTable[clockHand].pageNo) = clockHand

\* Some frame could be handed out: it is not valid or it is not pinned.
SomeCandidate == \E i \in Frames : ~bufTable[i].valid \/ bufTable[i].pinCnt = 0

\* C16: allocBuf ends after looking at no more than 2 * numBufs frames; when
\* some frame is not valid or has pinCnt = 0 at entry and writePage succeeds
\* it selects a frame, wherever the clock hand is and whatever the refbits
\* are; it returns BUFFEREXCEEDED only when every frame is valid and pinned.
C16_TwoSweepsSuffice ==
  \A wr \in FileStatus :
    LET a == allocBuf(Cur, wr)
    IN /\ Len(a.examined) <= 2 * NumBufs
       /\ (SomeCandidate /\ wr = OK) =>
            /\ a.status = OK
            /\ a.frame \in Frames
            /\ ~bufTable[a.frame].valid \/ bufTable[a.frame].pinCnt = 0
       /\ a.status = "BUFFEREXCEEDED" => AllPinned
       /\ a.status = "BUFFEREXCEEDED" => Len(a.examined) = 2 * NumBufs

\* The worst case: every frame is valid with its refbit set and the only
\* unpinned frame is the one just behind the clock hand; allocBuf selects it
\* at its last examination, the 2 * numBufs-th.
C16_Witness ==
  LET a == allocBuf(Cur, OK)
      behind == (clockHand + NumBufs - 1) % NumBufs
  IN /\ \A i \in Frames : bufTable[i].valid /\ bufTable[i].refbit
     /\ \A i \in Frames : bufTable[i].pinCnt = 0 <=> i = behind
     /\ last.op = "unPinPage" /\ last.status = OK /\ last.frame = behind
     /\ a.status = OK /\ a.frame = behind
     /\ Len(a.examined) = 2 * NumBufs

\* C17: when an examination of allocBuf finds a valid frame with its refbit
\* set, allocBuf does not select the frame at that examination: it clears
\* the refbit and moves the clock hand to the next frame; a valid frame that
\* allocBuf selects was found with refbit clear and pinCnt = 0.
C17_SecondChance ==
  \A wr \in FileStatus :
    LET a == allocBuf(Cur, wr)
        x == a.examined
    IN /\ \A n \in 1 .. Len(x) :
            (x[n].valid /\ x[n].refbit) =>
              /\ ~(a.status = OK /\ n = Len(x))
              /\ ~a.st.bufTable[x[n].frame].refbit
              /\ \A m \in (n + 1) .. Len(x) :
                   x[m].frame = x[n].frame => ~x[m].refbit
              /\ IF n < Len(x)
                 THEN x[n + 1].frame = advanceClock(x[n].frame)
                 ELSE a.st.clockHand = advanceClock(x[n].frame)
       /\ (a.status = OK /\ bufTable[a.frame].valid) =>
            /\ x[Len(x)] = [frame |-> a.frame, valid |-> TRUE,
                            refbit |-> FALSE, pinCnt |-> 0]
            /\ bufTable[a.frame].refbit => Len(x) > NumBufs
       /\ \A i \in Frames :
            (bufTable[i].valid /\ ~a.st.bufTable[i].valid) =>
              a.status = OK /\ a.frame = i

\* The frame under the clock hand is unpinned but has its refbit set, and
\* the next frame is unpinned with its refbit clear: allocBuf spares the
\* first, clearing its refbit, and evicts the second.
C17_Witness ==
  LET a == allocBuf(Cur, OK)
      next == advanceClock(clockHand)
  IN /\ bufTable[clockHand].valid /\ bufTable[clockHand].refbit
     /\ bufTable[clockHand].pinCnt = 0
     /\ bufTable[next].valid /\ ~bufTable[next].refbit
     /\ bufTable[next].pinCnt = 0
     /\ a.status = OK /\ a.frame = next
     /\ a.st.bufTable[clockHand] = [bufTable[clockHand] EXCEPT !.refbit = FALSE]
     /\ Len(a.examined) = 2

\* The pool states one call that is not a miss can make of the current one:
\* a readPage that hits, an unPinPage, a disposePage or a flushFile.
AfterNonMiss ==
  {readPageOp(Cur, k[1], k[2], OK, OK).st : k \in {q \in Keys : Resident(q[1], q[2])}}
  \cup {unPinPageOp(Cur, k[1], k[2], dirty).st : k \in Keys, dirty \in BOOLEAN}
  \cup {disposePageOp(Cur, k[1], k[2], OK).st : k \in Keys}
  \cup {flushFileOp(Cur, file, [i \in Frames |-> OK]).st : file \in Files}

ResidentIn(st, file, pageNo) == HashLookup(st.hashTable, file, pageNo).status = OK

\* C18 as stated: the clock hand is a function of the calls that miss alone.
\* A run that has reached the current state and one that makes one more call
\* that is not a miss have made the same misses; the same missing readPage or
\* allocPage, succeeding in both with the same answers of the file, then
\* leaves the clock hand in the same place in both.
C18_HandFunctionOfMisses ==
  \A d \in AfterNonMiss :
    /\ \A k \in Keys :
         LET r1 == readPageOp(Cur, k[1], k[2], OK, OK)
             r2 == readPageOp(d, k[1], k[2], OK, OK)
         IN (/\ ~Resident(k[1], k[2]) /\ ~ResidentIn(d, k[1], k[2])
             /\ r1.status = OK /\ r2.status = OK) =>
              r2.st.clockHand = r1.st.clockHand
    /\ \A k \in Keys :
         LET r1 == allocPageOp(Cur, k[1], OK, k[2], OK)
             r2 == allocPageOp(d, k[1], OK, k[2], OK)
         IN (r1.status = OK /\ r2.status = OK) =>
              r2.st.clockHand = r1.st.clockHand

\* C18 amended: the clock hand is moved by the calls that miss only: a
\* readPage that hits, an unPinPage, a disposePage and a flushFile leave it
\* where it is. (Where a miss leaves it depends on the pins, refbits and
\* valid flags those calls change.)
C18_HandMovesOnlyOnMiss ==
  [][(\/ last'.op \in {"unPinPage", "disposePage", "flushFile"}
      \/ last'.op = "readPage" /\ last'.hit
      \/ last'.op = "allocPage" /\ last'.status = "BADPAGENO")
     => clockHand' = clockHand]_vars

\* Misses have filled the pool, bringing the clock hand round to where it
\* started, and a flushFile has since emptied a frame: the hand has not moved.
C18_Witness ==
  /\ last.op = "flushFile" /\ last.status = OK
  /\ \E n \in 1 .. Len(last.log) : last.log[n] = "remove"
  /\ clockHand = NumBufs - 1
  /\ \E i \in Frames : bufTable[i].valid
  /\ \E i \in Frames : ~bufTable[i].valid /\ bufTable[i].pageNo = -1

\* C19: when flushFile(file) returns OK, no valid frame is owned by the file
\* and the hash table has no entry for it; each frame of the file that was
\* dirty was written exactly once, with its content, and no other frame was
\* written; the frames of other files, their hash entries and the clock hand
\* are unchanged. It returns OK when no frame of the file is pinned and the
\* writes succeed.
C19_FlushFileSuccess ==
  \A file \in Files, wrs \in [Frames -> FileStatus] :
    LET r == flushFileOp(Cur, file, wrs)
        owned == {i \in Frames : bufTable[i].valid /\ bufTable[i].file = file}
    IN /\ (\A i \in owned : bufTable[i].pinCnt = 0 /\ wrs[i] = OK) =>
            r.status = OK
       /\ r.status = OK =>
            /\ \A i \in Frames :
                 ~(r.st.bufTable[i].valid /\ r.st.bufTable[i].file = file)
            /\ \A e \in r.st.hashTable : e.file # file
            /\ \A i \in owned :
                 IF bufTable[i].dirty
                 THEN /\ Cardinality({n \in EventsOf(r.st.log, i) :
                                        r.st.log[n].ev \in {"write", "writefail"}}) = 1
                      /\ \E n \in 1 .. Len(r.st.log) :
                           r.st.log[n] = Ev("write", file, bufTable[i].pageNo, i,
                                            {bufPool[i]})
                      /\ r.st.disk[<<file, bufTable[i].pageNo>>] = bufPool[i]
                 ELSE \A n \in EventsOf(r.st.log, i) : r.st.log[n].ev = "remove"
            /\ \A i \in Frames \ owned :
                 /\ r.st.bufTable[i] = bufTable[i]
                 /\ EntriesOf(r.st.hashTable, i) = EntriesOf(hashTable, i)
                 /\ EventsOf(r.st.log, i) = {}
            /\ r.st.hashTable = {e \in hashTable : e.file # file}
            /\ r.st.clockHand = clockHand
            /\ r.st.bufPool = bufPool

\* A flushFile has just written back and dropped the dirty page of its file
\* while a pinned page of another file stayed in the pool.
C19_Witness ==
  /\ last.op = "flushFile" /\ last.status = OK
  /\ last.log = <<"write", "remove">>
  /\ \A e \in hashTable : e.file # last.file
  /\ \E i \in Frames :
       /\ bufTable[i].valid /\ bufTable[i].file # last.file
       /\ bufTable[i].pinCnt > 0 /\ bufTable[i].dirty
       /\ Resident(bufTable[i].file, bufTable[i].pageNo)

\* C20: in every reachable state, the failure paths of the calls included,
\* the hash table maps (file, pageNo) to frame i exactly when frame i is
\* valid and holds that file and page: no entry points to an unused frame
\* and no valid frame lacks its entry.
C20_IndexAgreesWithFrames ==
  /\ \A e \in hashTable :
       /\ e.frameNo \in Frames
       /\ bufTable[e.frameNo].valid
       /\ bufTable[e.frameNo].file = e.file
       /\ bufTable[e.frameNo].pageNo = e.pageNo
  /\ \A i \in Frames :
       bufTable[i].valid =>
         [file |-> bufTable[i].file, pageNo |-> bufTable[i].pageNo,
          frameNo |-> i] \in hashTable

\* A flushFile has just dropped one frame of its file and failed on the
\* write of the next: the first has no entry left, the second keeps its own.
C20_Witness ==
  /\ last.op = "flushFile" /\ last.status = "BADPAGENO"
  /\ last.log = <<"remove", "writefail">>
  /\ Cardinality(hashTable) = 1
  /\ bufTable[last.frame].valid /\ bufTable[last.frame].dirty
  /\ \E i \in Frames : i < last.frame /\ ~bufTable[i].valid
====
